---- MODULE Spec2Model ----
(***************************************************************************)
(* clox: single-pass compiler and stack VM (src/clox/src).                 *)
(*                                                                         *)
(* The model follows the C sources: the parser/compiler of compiler.c as   *)
(* recursive operators over a compile-state record, the chunk of chunk.c,  *)
(* the values of value.h/value.c and the dispatch loop of vm.c, one        *)
(* instruction per step.  Source text is represented by the token sequence *)
(* scanToken() delivers for it.  Numbers are exact rationals num/den.      *)
(* Memory errors of the C program (reads and writes outside the operand    *)
(* stack block, use of freed storage, NULL dereference, a wild instruction *)
(* pointer) are undefined behaviour: the model takes every outcome, a      *)
(* crash of the process or the continuation a usual build produces.        *)
(***************************************************************************)
EXTENDS Integers, Sequences, FiniteSets, TLC

VARIABLES
    mode,       \* which family of source texts the driver feeds (input set)
    life,       \* driver: "uninit" | "inited" | "freed" (initVM / freeVM calls)
    pc,         \* "idle" | "compiling" | "running" | "crashed"
    calls,      \* number of interpret() calls made so far
    inits,      \* number of initVM() calls made so far
    scanner,    \* scanner.c statics: [source, current]
    parser,     \* compiler.c Parser: [current, previous, hadError, panicMode]
    chunk,      \* the Chunk of the current interpret(): [code, lines, constants]
    heap,       \* ObjStrings allocated by copyString (never freed): pointer p is heap[p]
    vm,         \* vm.c VM: [ip, stack, under, stackTop, stackCapacity, stackMem]
    globals,    \* vm.c globals[0..globalCount-1]: sequence of [name, value]
    out,        \* stdout of the current interpret(): the values printed
    diag,       \* stderr of the current interpret(): the diagnostics
    result,     \* InterpretResult of the last returned interpret(), or "none"
    ub,         \* undefined behaviour has been executed since process start
    runs        \* history of returned interpret() calls

vars == <<mode, life, pc, calls, inits, scanner, parser, chunk, heap, vm,
          globals, out, diag, result, ub, runs>>

-----------------------------------------------------------------------------
(* Bounds of the model *)

MaxCalls == 2       \* interpret() calls per process
MaxInits == 2       \* initVM() calls per process
MaxLen == 3         \* length of the enumerated token sequences
MaxCode == 12       \* chunk size up to which a non-terminating compile is followed

-----------------------------------------------------------------------------
(* chunk.h: OpCode *)

OP_CONSTANT == 0
OP_NIL == 1
OP_TRUE == 2
OP_FALSE == 3
OP_POP == 4
OP_GET_LOCAL == 5
OP_SET_LOCAL == 6
OP_GET_GLOBAL == 7
OP_DEFINE_GLOBAL == 8
OP_SET_GLOBAL == 9
OP_EQUAL == 10
OP_GREATER == 11
OP_LESS == 12
OP_ADD == 13
OP_SUBTRACT == 14
OP_MULTIPLY == 15
OP_DIVIDE == 16
OP_NOT == 17
OP_NEGATE == 18
OP_PRINT == 19
OP_JUMP == 20
OP_JUMP_IF_FALSE == 21
OP_LOOP == 22
OP_RETURN == 23

MAX_GLOBALS == 256      \* vm.c
Byte == 256             \* range of uint8_t: (uint8_t)x is x % Byte
Short == 65536          \* range of uint16_t

-----------------------------------------------------------------------------
(* value.h / value.c: tagged values.  num/den is the payload: the number   *)
(* of a VAL_NUMBER (a rational in lowest terms), 0/1 of a VAL_BOOL, the    *)
(* pointer of a VAL_OBJ.                                                   *)

Abs(x) == IF x < 0 THEN -x ELSE x

RECURSIVE Gcd(_, _)
Gcd(a, b) == IF b = 0 THEN a ELSE Gcd(b, a % b)

\* a double holding n/d (d # 0), in lowest terms with a positive denominator
NUMBER_VAL(n, d) ==
    LET g == Gcd(Abs(n), Abs(d))
        s == IF d < 0 THEN -1 ELSE 1
    IN  [type |-> "VAL_NUMBER", num |-> (s * n) \div g, den |-> (s * d) \div g]

BOOL_VAL(b) == [type |-> "VAL_BOOL", num |-> IF b THEN 1 ELSE 0, den |-> 1]
NIL_VAL == [type |-> "VAL_NIL", num |-> 0, den |-> 1]
OBJ_VAL(p) == [type |-> "VAL_OBJ", num |-> p, den |-> 1]

\* a stack slot never written (uninitialised memory)
JUNK == [type |-> "JUNK", num |-> 0, den |-> 1]

IS_BOOL(v) == v.type = "VAL_BOOL"
IS_NIL(v) == v.type = "VAL_NIL"
IS_NUMBER(v) == v.type = "VAL_NUMBER"
IS_OBJ(v) == v.type = "VAL_OBJ"
AS_BOOL(v) == v.num = 1
AS_OBJ(v) == v.num

valuesEqual(a, b) ==
    IF a.type # b.type THEN FALSE
    ELSE IF a.type = "VAL_BOOL" THEN AS_BOOL(a) = AS_BOOL(b)
    ELSE IF a.type = "VAL_NIL" THEN TRUE
    ELSE IF a.type = "VAL_NUMBER" THEN a.num = b.num /\ a.den = b.den
    ELSE IF a.type = "VAL_OBJ" THEN AS_OBJ(a) = AS_OBJ(b)
    ELSE FALSE

\* the values an uninitialised or foreign slot can be read as
Garbage == {NIL_VAL, BOOL_VAL(FALSE), BOOL_VAL(TRUE), NUMBER_VAL(0, 1), NUMBER_VAL(7, 1)}

-----------------------------------------------------------------------------
(* chunk.c *)

initChunk == [code |-> <<>>, lines |-> <<>>, constants |-> <<>>]

\* writeChunk: append one byte and its line (offset k of code is code[k + 1])
writeChunk(ch, byte, line) ==
    [ch EXCEPT !.code = Append(@, byte), !.lines = Append(@, line)]

\* addConstant: append the value; the index returned is Len(constants) - 1 afterwards
addConstant(ch, value) == [ch EXCEPT !.constants = Append(@, value)]

-----------------------------------------------------------------------------
(* scanner.c, at its interface: a source text is the sequence of tokens    *)
(* scanToken() returns for it, the last one TOKEN_EOF.  A token is         *)
(* [type, text, line]; text is the lexeme (for TOKEN_NUMBER the digits     *)
(* <<integer part, fraction>>, for TOKEN_ERROR the message).               *)

Tok(type, text, line) == [type |-> type, text |-> text, line |-> line]

\* static Token of a zero-initialised Parser (never inspected before advance())
ZeroToken == Tok("TOKEN_ZERO", "", 0)

initScanner(source) == [source |-> source, current |-> 1]

RECURSIVE DigitsValue(_)
DigitsValue(ds) ==
    IF ds = <<>> THEN 0 ELSE 10 * DigitsValue(SubSeq(ds, 1, Len(ds) - 1)) + ds[Len(ds)]

RECURSIVE Pow10(_)
Pow10(k) == IF k = 0 THEN 1 ELSE 10 * Pow10(k - 1)

\* strtod on the lexeme of a TOKEN_NUMBER: digits, optionally '.' digits
strtod(text) ==
    NUMBER_VAL(DigitsValue(text[1]) * Pow10(Len(text[2])) + DigitsValue(text[2]),
               Pow10(Len(text[2])))

-----------------------------------------------------------------------------
(* compiler.c.  The compile state c is [scanner, parser, chunk, heap, diag]. *)

\* an errorAt without panic mode: every error is printed
errorAtEvery(c, token, message) ==
    [c EXCEPT !.parser.panicMode = TRUE,
              !.parser.hadError = TRUE,
              !.diag = Append(@, [line |-> token.line,
                                  at |-> IF token.type = "TOKEN_EOF" THEN "end"
                                         ELSE IF token.type = "TOKEN_ERROR" THEN "error"
                                         ELSE "lexeme",
                                  token |-> token,
                                  msg |-> message])]

errorAt(c, token, message) ==
    IF c.parser.panicMode THEN c
    ELSE [c EXCEPT !.parser.panicMode = TRUE,
                   !.parser.hadError = TRUE,
                   !.diag = Append(@, [line |-> token.line,
                                       at |-> IF token.type = "TOKEN_EOF" THEN "end"
                                              ELSE IF token.type = "TOKEN_ERROR" THEN "error"
                                              ELSE "lexeme",
                                       token |-> token,
                                       msg |-> message])]

\* an errorAtCurrent that leaves panic mode again once the error is reported
errorAtCurrentRecovering(c, message) ==
    [errorAt(c, c.parser.current, message) EXCEPT !.parser.panicMode = FALSE]

errorAtCurrent(c, message) == errorAt(c, c.parser.current, message)

\* scanToken(): the next token of the source; TOKEN_EOF is returned again and again
scanToken(c) ==
    LET tok == c.scanner.source[c.scanner.current]
    IN  [c EXCEPT !.parser.current = tok,
                  !.scanner.current = IF tok.type = "TOKEN_EOF" THEN @ ELSE @ + 1]

RECURSIVE advanceLoop(_), skipErrors(_)
\* advance(): the loop, after parser.current = scanToken()
skipErrors(c) ==
    IF c.parser.current.type # "TOKEN_ERROR" THEN c
    ELSE advanceLoop(errorAtCurrent(c, c.parser.current.text))

advanceLoop(c) == skipErrors(scanToken(c))

advance(c) == advanceLoop([c EXCEPT !.parser.previous = c.parser.current])

check(c, type) == c.parser.current.type = type

consume(c, type, message) ==
    IF check(c, type) THEN advance(c) ELSE errorAtCurrent(c, message)

emitByte(c, byte, line) == [c EXCEPT !.chunk = writeChunk(@, byte, line)]

emitBytes(c, b1, b2, line) == emitByte(emitByte(c, b1, line), b2, line)

\* (uint8_t) cast
U8(x) == x % Byte

\* the index addConstant returned, for the chunk it left
lastConstant(c) == Len(c.chunk.constants) - 1

\* emitConstant after addConstant
emitConstantIndex(c, line) == emitBytes(c, OP_CONSTANT, U8(lastConstant(c)), line)

emitConstant(c, value, line) ==
    emitConstantIndex([c EXCEPT !.chunk = addConstant(@, value)], line)

\* returns <<c', offset of the operand>>
jumpOperand(c) == <<c, Len(c.chunk.code) - 2>>

emitJump(c, op, line) ==
    jumpOperand(emitByte(emitByte(emitByte(c, op, line), 255, line), 255, line))

\* (x >> 8) & 0xff and x & 0xff of an int (two's complement)
HiByte(x) == (x \div 256) % 256
LoByte(x) == x % 256

\* a patch that measures the distance from the operand instead of from behind it
patchJumpFromOperand(c, offset) ==
    LET jump == Len(c.chunk.code) - offset
    IN  [c EXCEPT !.chunk.code[offset + 1] = HiByte(jump),
                  !.chunk.code[offset + 2] = LoByte(jump)]

patchJump(c, offset) ==
    LET jump == Len(c.chunk.code) - offset - 2
    IN  [c EXCEPT !.chunk.code[offset + 1] = HiByte(jump),
                  !.chunk.code[offset + 2] = LoByte(jump)]

\* copyString: a fresh ObjString; the pointer is its index in the heap
copyString(c, chars) == [c EXCEPT !.heap = Append(@, chars)]

\* returns <<c', (uint8_t) index of the new constant>>
constantIndex(c) == <<c, U8(lastConstant(c))>>

\* identifierConstant after copyString: the new string is the last of the heap
addObjConstant(c) == constantIndex([c EXCEPT !.chunk = addConstant(@, OBJ_VAL(Len(c.heap)))])

identifierConstant(c, name) == addObjConstant(copyString(c, name.text))

\* the opcodes emitted for a binary operator token (expression's else-if chain)
BinaryCode(type) ==
    CASE type = "TOKEN_STAR" -> <<OP_MULTIPLY>>
      [] type = "TOKEN_SLASH" -> <<OP_DIVIDE>>
      [] type = "TOKEN_PLUS" -> <<OP_ADD>>
      [] type = "TOKEN_MINUS" -> <<OP_SUBTRACT>>
      [] type = "TOKEN_EQUAL_EQUAL" -> <<OP_EQUAL>>
      [] type = "TOKEN_BANG_EQUAL" -> <<OP_EQUAL, OP_NOT>>
      [] type = "TOKEN_LESS" -> <<OP_LESS>>
      [] type = "TOKEN_LESS_EQUAL" -> <<OP_GREATER, OP_NOT>>
      [] type = "TOKEN_GREATER" -> <<OP_GREATER>>
      [] type = "TOKEN_GREATER_EQUAL" -> <<OP_LESS, OP_NOT>>
      [] OTHER -> <<>>

RECURSIVE emitAll(_, _, _)
emitAll(c, bytes, line) ==
    IF bytes = <<>> THEN c ELSE emitAll(emitByte(c, Head(bytes), line), Tail(bytes), line)

\* emitByte / emitBytes / emitJump with parser.previous.line, as every caller passes
emitPrev(c, byte) == emitByte(c, byte, c.parser.previous.line)
emitBytesPrev(c, b1, b2) == emitBytes(c, b1, b2, c.parser.previous.line)
emitJumpPrev(c, op) == emitJump(c, op, c.parser.previous.line)

RECURSIVE parsePrecedence1(_), expression(_), expressionLoop(_), declaration(_), blockLoop(_)

\* parsePrecedence1 after match(TOKEN_BANG) || match(TOKEN_MINUS): op is parser.previous.type
unary(c, op) ==
    IF op = "TOKEN_BANG" THEN emitPrev(parsePrecedence1(c), OP_NOT)
    ELSE emitPrev(parsePrecedence1(c), OP_NEGATE)

\* parsePrecedence1 after match(TOKEN_NUMBER)
numberLiteral(c) == emitConstant(c, strtod(c.parser.previous.text), c.parser.previous.line)

\* parsePrecedence1 after identifierConstant(&name) returned r = <<c, arg>>
namedVariable(r) ==
    IF check(r[1], "TOKEN_EQUAL")
    THEN emitBytesPrev(expression(advance(r[1])), OP_SET_GLOBAL, r[2])
    ELSE emitBytesPrev(r[1], OP_GET_GLOBAL, r[2])

\* parsePrecedence1 after match(TOKEN_IDENTIFIER)
variable(c) == namedVariable(identifierConstant(c, c.parser.previous))

parsePrecedence1(c) ==
    IF check(c, "TOKEN_BANG") \/ check(c, "TOKEN_MINUS") THEN unary(advance(c), c.parser.current.type)
    ELSE IF check(c, "TOKEN_FALSE") THEN emitPrev(advance(c), OP_FALSE)
    ELSE IF check(c, "TOKEN_TRUE") THEN emitPrev(advance(c), OP_TRUE)
    ELSE IF check(c, "TOKEN_NIL") THEN emitPrev(advance(c), OP_NIL)
    ELSE IF check(c, "TOKEN_NUMBER") THEN numberLiteral(advance(c))
    ELSE IF check(c, "TOKEN_LEFT_PAREN") THEN
        consume(expression(advance(c)), "TOKEN_RIGHT_PAREN", "Expect ')' after expression.")
    ELSE IF check(c, "TOKEN_IDENTIFIER") THEN variable(advance(c))
    ELSE errorAtCurrent(c, "Expect expression.")

\* one arm of expression's loop, after parsePrecedence1 parsed the right operand
binary(c, type) == emitAll(c, BinaryCode(type), c.parser.previous.line)

\* a loop that takes the whole rest of the expression as the right operand
expressionLoopRight(c) ==
    IF BinaryCode(c.parser.current.type) # <<>>
    THEN binary(expressionLoop(parsePrecedence1(advance(c))), c.parser.current.type)
    ELSE c

expressionLoop(c) ==
    IF BinaryCode(c.parser.current.type) # <<>>
    THEN expressionLoop(binary(parsePrecedence1(advance(c)), c.parser.current.type))
    ELSE c

expression(c) == expressionLoop(parsePrecedence1(c))

blockLoop(c) ==
    IF c.parser.current.type # "TOKEN_RIGHT_BRACE" /\ ~c.parser.hadError
    THEN blockLoop(declaration(c))
    ELSE c

\* declaration, var: after identifierConstant(&parser.previous) returned r = <<c, arg>>
varInitializer(r) ==
    emitBytesPrev(
        consume(IF check(r[1], "TOKEN_EQUAL") THEN expression(advance(r[1]))
                ELSE emitPrev(r[1], OP_NIL),
                "TOKEN_SEMICOLON", "Expect ';' after variable declaration."),
        OP_DEFINE_GLOBAL, r[2])

\* declaration, var: after consume(TOKEN_IDENTIFIER, ...)
varDeclaration(c) == varInitializer(identifierConstant(c, c.parser.previous))

\* declaration, if: from the else-side OP_POP on
ifElse(c, elseJump) ==
    patchJump(IF check(c, "TOKEN_ELSE") THEN declaration(advance(c)) ELSE c, elseJump)

\* declaration, if: after the else-skip jump ej = <<c, elseJump>> was emitted
ifPatchThen(ej, thenJump) == ifElse(emitPrev(patchJump(ej[1], thenJump), OP_POP), ej[2])

\* declaration, if: after the then-jump tj = <<c, thenJump>> was emitted
ifThen(tj) == ifPatchThen(emitJumpPrev(declaration(emitPrev(tj[1], OP_POP)), OP_JUMP), tj[2])

\* declaration, while: OP_LOOP and its operand
emitLoop(c, offset) ==
    emitPrev(emitPrev(emitPrev(c, OP_LOOP), HiByte(offset)), LoByte(offset))

\* declaration, while: after the body
whileEnd(c, loopStart, exitJump) ==
    emitPrev(patchJump(emitLoop(c, loopStart - Len(c.chunk.code) - 2), exitJump), OP_POP)

\* declaration, while: after the exit jump xj = <<c, exitJump>> was emitted
whileBody(xj, loopStart) == whileEnd(declaration(emitPrev(xj[1], OP_POP)), loopStart, xj[2])

\* declaration, while: after match(TOKEN_WHILE)
whileStatement(c) ==
    whileBody(
        emitJumpPrev(
            consume(expression(consume(c, "TOKEN_LEFT_PAREN", "Expect '(' after 'while'.")),
                    "TOKEN_RIGHT_PAREN", "Expect ')' after condition."),
            OP_JUMP_IF_FALSE),
        Len(c.chunk.code))

declaration(c) ==
    IF check(c, "TOKEN_VAR") THEN
        varDeclaration(consume(advance(c), "TOKEN_IDENTIFIER", "Expect variable name."))
    ELSE IF check(c, "TOKEN_PRINT") THEN
        emitPrev(consume(expression(advance(c)), "TOKEN_SEMICOLON", "Expect ';' after value."),
                 OP_PRINT)
    ELSE IF check(c, "TOKEN_IF") THEN
        ifThen(emitJumpPrev(
            consume(expression(consume(advance(c), "TOKEN_LEFT_PAREN",
                                       "Expect '(' after 'if'.")),
                    "TOKEN_RIGHT_PAREN", "Expect ')' after if condition."),
            OP_JUMP_IF_FALSE))
    ELSE IF check(c, "TOKEN_WHILE") THEN whileStatement(advance(c))
    ELSE IF check(c, "TOKEN_LEFT_BRACE") THEN
        consume(blockLoop(advance(c)), "TOKEN_RIGHT_BRACE", "Expect '}' after block.")
    ELSE
        emitPrev(consume(expression(c), "TOKEN_SEMICOLON", "Expect ';' after expression."),
                 OP_POP)

\* index in the source of the token parser.current holds
CurPos(c) ==
    IF c.parser.current.type = "TOKEN_EOF" THEN Len(c.scanner.source)
    ELSE c.scanner.current - 1

-----------------------------------------------------------------------------
(* vm.c.  The machine state m is the VM record together with the globals,  *)
(* the two output streams, the ub flag and st: "run" while the dispatch    *)
(* loop runs, else the InterpretResult returned or "crash".  An operation  *)
(* with undefined behaviour yields a set of outcomes.                      *)

Crash(m) == [m EXCEPT !.st = "crash", !.ub = TRUE]

resetStack(v) == [v EXCEPT !.stackTop = 0]

RECURSIVE Fill(_, _)
Fill(seq, n) == IF Len(seq) >= n THEN seq ELSE Fill(Append(seq, JUNK), n)

\* the outcomes of reading vm.stack[idx]: [crash, v, ub]
ReadSlot(m, idx) ==
    LET Got(vs, u) == {[crash |-> FALSE, v |-> x, ub |-> u] : x \in vs}
        Dead == {[crash |-> TRUE, v |-> JUNK, ub |-> TRUE]}
    IN  IF m.stackMem = "null" THEN Dead
        ELSE IF idx < 0 THEN
            Dead \cup Got(IF -idx <= Len(m.under) /\ m.under[-idx] # JUNK
                          THEN {m.under[-idx]} ELSE Garbage, TRUE)
        ELSE IF m.stackMem = "freed" THEN
            Dead \cup Got({m.stack[idx + 1]} \cup Garbage, TRUE)
        ELSE Got({m.stack[idx + 1]}, FALSE)

\* the outcomes of vm.stack[idx] = value
WriteSlot(m, idx, value) ==
    IF m.stackMem = "null" THEN {Crash(m)}
    ELSE IF idx < 0 THEN
        {Crash(m), [m EXCEPT !.under = [Fill(@, -idx) EXCEPT ![-idx] = value], !.ub = TRUE]}
    ELSE IF m.stackMem = "freed" THEN
        {Crash(m), [m EXCEPT !.stack[idx + 1] = value, !.ub = TRUE]}
    ELSE {[m EXCEPT !.stack[idx + 1] = value]}

\* realloc(vm.stack, sizeof(Value) * cap): the outcomes
GrowStack(m, cap) ==
    LET grown == [m EXCEPT !.stackCapacity = cap, !.stack = Fill(@, cap), !.stackMem = "live"]
    IN  IF m.stackMem = "freed" THEN {Crash(m), [grown EXCEPT !.ub = TRUE]}
        ELSE IF \E k \in 1..Len(m.under) : m.under[k] # JUNK THEN {Crash(m), grown}
        ELSE {grown}

push(m, value) ==
    LET ready == IF m.stackCapacity < m.stackTop + 1
                 THEN GrowStack(m, IF m.stackCapacity < 8 THEN 8 ELSE m.stackCapacity * 2)
                 ELSE {m}
    IN  UNION { IF r.st = "crash" THEN {r}
                ELSE { IF w.st = "crash" THEN w ELSE [w EXCEPT !.stackTop = @ + 1]
                       : w \in WriteSlot(r, r.stackTop, value) }
                : r \in ready }

\* pop(): the outcomes <<m', value>>; m'.st = "crash" when the read crashed
pop(m) ==
    { IF r.crash THEN <<Crash(m), JUNK>>
      ELSE <<[m EXCEPT !.stackTop = @ - 1, !.ub = @ \/ r.ub], r.v>>
      : r \in ReadSlot(m, m.stackTop - 1) }

\* peek(distance): the outcomes [crash, v, ub]
peek(m, distance) == ReadSlot(m, m.stackTop - 1 - distance)

\* pop() whose value is not used
popDiscard(m) ==
    { IF r.crash THEN Crash(m) ELSE [m EXCEPT !.stackTop = @ - 1, !.ub = @ \/ r.ub]
      : r \in {[crash |-> x.crash, ub |-> x.ub] : x \in ReadSlot(m, m.stackTop - 1)} }

\* NULL is pointer 0
getConstantName(ch, index) ==
    LET v == ch.constants[index + 1]
    IN  IF IS_OBJ(v) THEN AS_OBJ(v) ELSE 0

\* a comparison by pointer alone: stringsEqual without its memcmp
stringsEqualByPointer(hp, a, b) == a = b

\* pointer equality, else length and bytes (the chars of an ObjString carry both)
stringsEqual(hp, a, b) ==
    IF a = b THEN TRUE
    ELSE IF a = 0 \/ b = 0 THEN FALSE
    ELSE hp[a] = hp[b]

\* index (1-based) of the first global named like name, 0 when there is none
findGlobal(hp, gs, name) ==
    LET hits == {i \in 1..Len(gs) : stringsEqual(hp, gs[i].name, name)}
    IN  IF hits = {} THEN 0 ELSE CHOOSE i \in hits : \A j \in hits : i <= j

\* getGlobal: <<found, *out>>
getGlobal(hp, gs, name) ==
    LET i == findGlobal(hp, gs, name)
    IN  IF i = 0 THEN <<FALSE, JUNK>> ELSE <<TRUE, gs[i].value>>

\* a table that records every store as a new entry
setGlobalAppending(hp, gs, name, value) == Append(gs, [name |-> name, value |-> value])

setGlobal(hp, gs, name, value) ==
    LET i == findGlobal(hp, gs, name)
    IN  IF i # 0 THEN [gs EXCEPT ![i].value = value]
        ELSE IF Len(gs) < MAX_GLOBALS THEN Append(gs, [name |-> name, value |-> value])
        ELSE gs

isTruthy(value) ==
    IF IS_NIL(value) THEN FALSE
    ELSE IF IS_BOOL(value) THEN AS_BOOL(value)
    ELSE TRUE

\* runtimeError(...) followed by return INTERPRET_RUNTIME_ERROR
runtimeError(m, message, arg) ==
    [m EXCEPT !.diag = Append(@, [msg |-> message, arg |-> arg]),
              !.st = "INTERPRET_RUNTIME_ERROR"]

\* runtimeError("Undefined variable '%.*s'.", name->length, name->chars):
\* name == NULL is dereferenced
undefinedVariable(m, hp, name) ==
    IF name = 0 THEN Crash(m) ELSE runtimeError(m, "Undefined variable", hp[name])

\* READ_SHORT() at operand offset p: big-endian uint16_t
READ_SHORT(ch, p) == (ch.code[p + 1] * 256 + ch.code[p + 2]) % Short

\* a op b on doubles; a comparison yields the C int 1 or 0, stored by NUMBER_VAL
NumGreater(a, b) == NUMBER_VAL(IF a.num * b.den > b.num * a.den THEN 1 ELSE 0, 1)
NumLess(a, b) == NUMBER_VAL(IF a.num * b.den < b.num * a.den THEN 1 ELSE 0, 1)
NumAdd(a, b) == NUMBER_VAL(a.num * b.den + b.num * a.den, a.den * b.den)
NumSubtract(a, b) == NUMBER_VAL(a.num * b.den - b.num * a.den, a.den * b.den)
NumMultiply(a, b) == NUMBER_VAL(a.num * b.num, a.den * b.den)
NumDivide(a, b) == NUMBER_VAL(a.num * b.den, a.den * b.num)

\* AS_NUMBER(v) == 0 reads the double of the union whatever the tag: 0 for a
\* Number 0 and for nil (NIL_VAL stores .number = 0); the bytes of a Bool
\* beyond its first are unspecified, so false may or may not read as 0
DivisorIsZero(v) ==
    IF IS_NUMBER(v) THEN {v.num = 0}
    ELSE IF IS_NIL(v) THEN {TRUE}
    ELSE IF IS_BOOL(v) /\ ~AS_BOOL(v) THEN {TRUE, FALSE}
    ELSE {FALSE}

\* BINARY_OP(op), the top of stack already read as rb (an outcome of peek(0))
\* a op b for the operator BINARY_OP is expanded with
Arith(op, a, b) ==
    CASE op = ">" -> NumGreater(a, b)
      [] op = "<" -> NumLess(a, b)
      [] op = "+" -> NumAdd(a, b)
      [] op = "-" -> NumSubtract(a, b)
      [] op = "*" -> NumMultiply(a, b)
      [] op = "/" -> NumDivide(a, b)

BinaryOpWith(m, rb, op) ==
    IF rb.crash THEN {Crash(m)}
    ELSE IF ~IS_NUMBER(rb.v)
    THEN {runtimeError([m EXCEPT !.ub = @ \/ rb.ub], "Operands must be numbers.", "")}
    ELSE UNION {
        IF ra.crash THEN {Crash(m)}
        ELSE IF ~IS_NUMBER(ra.v)
        THEN {runtimeError([m EXCEPT !.ub = @ \/ rb.ub \/ ra.ub],
                           "Operands must be numbers.", "")}
        ELSE push([m EXCEPT !.stackTop = @ - 2, !.ub = @ \/ rb.ub \/ ra.ub],
                  Arith(op, ra.v, rb.v))
        : ra \in peek(m, 1) }

BINARY_OP(m, op) == UNION { BinaryOpWith(m, rb, op) : rb \in peek(m, 0) }

\* case OP_DIVIDE
opDivide(m) ==
    UNION { IF rb.crash THEN {Crash(m)}
            ELSE UNION { IF z THEN {runtimeError([m EXCEPT !.ub = @ \/ rb.ub],
                                                 "Division by zero.", "")}
                         ELSE BinaryOpWith(m, rb, "/")
                         : z \in DivisorIsZero(rb.v) }
            : rb \in peek(m, 0) }

\* ms, each running machine continued by push(value)
pushAll(ms, value) == UNION { IF x.st # "run" THEN {x} ELSE push(x, value) : x \in ms }

\* case OP_GET_GLOBAL
opGetGlobal(m, ch, hp, index) ==
    LET name == getConstantName(ch, index)
        g == getGlobal(hp, m.globals, name)
    IN  IF ~g[1] THEN {undefinedVariable(m, hp, name)} ELSE push(m, g[2])

\* case OP_DEFINE_GLOBAL
opDefineGlobal(m, ch, hp, index) ==
    LET name == getConstantName(ch, index)
    IN  UNION { IF r.crash THEN {Crash(m)}
                ELSE popDiscard([m EXCEPT !.globals = setGlobal(hp, @, name, r.v),
                                          !.ub = @ \/ r.ub])
                : r \in peek(m, 0) }

\* case OP_SET_GLOBAL
opSetGlobal(m, ch, hp, index) ==
    LET name == getConstantName(ch, index)
    IN  UNION { LET m1 == p[1]
                    v == p[2]
                IN  IF m1.st = "crash" THEN {m1}
                    ELSE IF ~getGlobal(hp, m1.globals, name)[1]
                    THEN {undefinedVariable(m1, hp, name)}
                    ELSE push([m1 EXCEPT !.globals = setGlobal(hp, @, name, v)], v)
                : p \in pop(m) }

\* case OP_EQUAL
opEqual(m) ==
    UNION { IF pb[1].st = "crash" THEN {pb[1]}
            ELSE UNION { IF pa[1].st = "crash" THEN {pa[1]}
                         ELSE push(pa[1], BOOL_VAL(valuesEqual(pa[2], pb[2])))
                         : pa \in pop(pb[1]) }
            : pb \in pop(m) }

\* case OP_NOT
opNot(m) ==
    UNION { IF p[1].st = "crash" THEN {p[1]} ELSE push(p[1], BOOL_VAL(~isTruthy(p[2])))
            : p \in pop(m) }

\* case OP_NEGATE
opNegate(m) ==
    UNION { IF r.crash THEN {Crash(m)}
            ELSE IF ~IS_NUMBER(r.v)
            THEN {runtimeError([m EXCEPT !.ub = @ \/ r.ub], "Operand must be a number.", "")}
            ELSE push([m EXCEPT !.stackTop = @ - 1, !.ub = @ \/ r.ub],
                      NUMBER_VAL(-r.v.num, r.v.den))
            : r \in peek(m, 0) }

\* case OP_PRINT: printValue(pop())
opPrint(m) ==
    { IF p[1].st = "crash" THEN p[1] ELSE [p[1] EXCEPT !.out = Append(@, p[2])]
      : p \in pop(m) }

\* case OP_JUMP_IF_FALSE, ip already behind the operand
opJumpIfFalse(m, offset) ==
    UNION { IF r.crash THEN {Crash(m)}
            ELSE IF ~isTruthy(r.v)
            THEN { IF x.st = "crash" THEN x ELSE [x EXCEPT !.ip = @ + offset]
                   : x \in popDiscard([m EXCEPT !.ub = @ \/ r.ub]) }
            ELSE {[m EXCEPT !.ub = @ \/ r.ub]}
            : r \in peek(m, 0) }

\* READ_BYTE() with vm.ip outside the code of the chunk: the byte is whatever
\* lies there, or the access faults; the run is followed no further than its end
wildFetch(m) ==
    {Crash(m),
     [m EXCEPT !.st = "INTERPRET_OK", !.ub = TRUE],
     [m EXCEPT !.st = "INTERPRET_RUNTIME_ERROR", !.ub = TRUE]}

\* one iteration of the dispatch loop of run(): the outcomes
step(m, ch, hp) ==
    IF m.ip < 0 \/ m.ip >= Len(ch.code) THEN wildFetch(m)
    ELSE
    LET instruction == ch.code[m.ip + 1]
        m1 == [m EXCEPT !.ip = @ + 1]
        m2 == [m EXCEPT !.ip = @ + 2]
        m3 == [m EXCEPT !.ip = @ + 3]
        byte == ch.code[m.ip + 2]
        short == READ_SHORT(ch, m.ip + 1)
    IN  CASE instruction = OP_CONSTANT -> push(m2, ch.constants[byte + 1])
          [] instruction = OP_NIL -> push(m1, NIL_VAL)
          [] instruction = OP_TRUE -> push(m1, BOOL_VAL(TRUE))
          [] instruction = OP_FALSE -> push(m1, BOOL_VAL(FALSE))
          [] instruction = OP_POP -> popDiscard(m1)
          [] instruction = OP_GET_GLOBAL -> opGetGlobal(m2, ch, hp, byte)
          [] instruction = OP_DEFINE_GLOBAL -> opDefineGlobal(m2, ch, hp, byte)
          [] instruction = OP_SET_GLOBAL -> opSetGlobal(m2, ch, hp, byte)
          [] instruction = OP_EQUAL -> opEqual(m1)
          [] instruction = OP_GREATER -> BINARY_OP(m1, ">")
          [] instruction = OP_LESS -> BINARY_OP(m1, "<")
          [] instruction = OP_ADD -> BINARY_OP(m1, "+")
          [] instruction = OP_SUBTRACT -> BINARY_OP(m1, "-")
          [] instruction = OP_MULTIPLY -> BINARY_OP(m1, "*")
          [] instruction = OP_DIVIDE -> opDivide(m1)
          [] instruction = OP_NOT -> opNot(m1)
          [] instruction = OP_NEGATE -> opNegate(m1)
          [] instruction = OP_PRINT -> opPrint(m1)
          [] instruction = OP_JUMP -> {[m3 EXCEPT !.ip = @ + short]}
          [] instruction = OP_JUMP_IF_FALSE -> opJumpIfFalse(m3, short)
          [] instruction = OP_LOOP -> {[m3 EXCEPT !.ip = @ - short]}
          [] instruction = OP_RETURN -> {[m1 EXCEPT !.st = "INTERPRET_OK"]}
          [] OTHER -> {m1}

-----------------------------------------------------------------------------
(* Source texts fed to interpret(), as token sequences (all on line 1       *)
(* unless said otherwise).                                                  *)

K(type, lexeme) == Tok(type, lexeme, 1)
Id(name) == K("TOKEN_IDENTIFIER", name)
Num(n) == K("TOKEN_NUMBER", <<(<<n>>), <<>>>>)
tEOF == K("TOKEN_EOF", "")
tVar == K("TOKEN_VAR", "var")
tPrint == K("TOKEN_PRINT", "print")
tIf == K("TOKEN_IF", "if")
tElse == K("TOKEN_ELSE", "else")
tWhile == K("TOKEN_WHILE", "while")
tLP == K("TOKEN_LEFT_PAREN", "(")
tRP == K("TOKEN_RIGHT_PAREN", ")")
tLB == K("TOKEN_LEFT_BRACE", "{")
tRB == K("TOKEN_RIGHT_BRACE", "}")
tSemi == K("TOKEN_SEMICOLON", ";")
tEq == K("TOKEN_EQUAL", "=")
tEqEq == K("TOKEN_EQUAL_EQUAL", "==")
tPlus == K("TOKEN_PLUS", "+")
tMinus == K("TOKEN_MINUS", "-")
tStar == K("TOKEN_STAR", "*")
tSlash == K("TOKEN_SLASH", "/")
tLess == K("TOKEN_LESS", "<")
tBang == K("TOKEN_BANG", "!")
tNil == K("TOKEN_NIL", "nil")
tTrue == K("TOKEN_TRUE", "true")
tFalse == K("TOKEN_FALSE", "false")
tErr == K("TOKEN_ERROR", "Unexpected character.")

\* var i = 0; while (i < n) { print i; i = i + 1; }
WhileProgram(n) ==
    <<tVar, Id("i"), tEq, Num(0), tSemi,
      tWhile, tLP, Id("i"), tLess, Num(n), tRP, tLB,
      tPrint, Id("i"), tSemi,
      Id("i"), tEq, Id("i"), tPlus, Num(1), tSemi, tRB, tEOF>>

\* print a / b;  for operand tokens a, b
DivProgram(a, b) == <<tPrint, a, tSlash, b, tSemi, tEOF>>

\* if (c) print 1; else print 2;
IfProgram(c) ==
    <<tIf, tLP, c, tRP, tPrint, Num(1), tSemi, tElse, tPrint, Num(2), tSemi, tEOF>>

\* var x = 1; if (x == k) print 10; else print 20;
IfEqProgram(k) ==
    <<tVar, Id("x"), tEq, Num(1), tSemi,
      tIf, tLP, Id("x"), tEqEq, Num(k), tRP,
      tPrint, K("TOKEN_NUMBER", <<(<<1, 0>>), <<>>>>), tSemi,
      tElse, tPrint, K("TOKEN_NUMBER", <<(<<2, 0>>), <<>>>>), tSemi, tEOF>>

\* if (c) print 1;
IfOnlyProgram(c) == <<tIf, tLP, c, tRP, tPrint, Num(1), tSemi, tEOF>>

\* the condition tokens tried in if statements
Conditions == {tTrue, tFalse, tNil, Num(0)}

DefA == <<tVar, Id("a"), tEq, Num(5), tSemi, tEOF>>                 \* var a = 5;
DefA2 == <<tVar, Id("a"), tEq, Num(6), tSemi, tEOF>>                \* var a = 6;
DefB == <<tVar, Id("b"), tSemi, tEOF>>                              \* var b;
PrintA == <<tPrint, Id("a"), tSemi, tEOF>>                          \* print a;
SetA == <<tPrint, Id("a"), tEq, Num(3), tSemi, tEOF>>               \* print a = 3;
SetPrintA == <<tVar, Id("a"), tEq, Num(5), tSemi, tPrint, Id("a"), tEq, Num(3), tSemi,
               tPrint, Id("a"), tSemi, tEOF>>                       \* var a = 5; print a = 3; print a;
DefPrintA == <<tVar, Id("a"), tEq, Num(5), tSemi,
               tPrint, Id("a"), tPlus, Id("a"), tSemi, tEOF>>       \* var a = 5; print a + a;
PrintSum == <<tPrint, Num(1), tPlus, Num(2), tStar, Num(3), tSemi, tEOF>>  \* print 1 + 2 * 3;
\* the operator tokens expression() loops on
BinaryTokens ==
    {tStar, tSlash, tPlus, tMinus, tEqEq, K("TOKEN_BANG_EQUAL", "!="), tLess,
     K("TOKEN_LESS_EQUAL", "<="), K("TOKEN_GREATER", ">"), K("TOKEN_GREATER_EQUAL", ">=")}
\* print 1 op1 b op2 3;  with the tokens b of the middle operand
ChainProgram(op1, b, op2) == <<tPrint, Num(1), op1>> \o b \o <<op2, Num(3), tSemi, tEOF>>
BadParen == <<tRP, tEOF>>                                           \* )
BadPrint == <<tVar, Id("a"), tEq, Num(9), tSemi, tPrint, tSemi, tEOF>>  \* var a = 9; print ;
TypeError == <<tPrint, Num(1), tPlus, tNil, tSemi, tEOF>>           \* print 1 + nil;
Empty == <<tEOF>>

\* the source texts of a session of several interpret() calls
SessionPrograms ==
    {DefA, DefA2, PrintA, SetA, DefPrintA, BadPrint, TypeError, IfProgram(tFalse), Empty,
     <<tErr, tErr, tEOF>>}                                           \* @ #

\* the operands tried around '/'
DivOperands == {Num(0), Num(1), Num(6), Num(3), tNil, tTrue, tFalse}

\* the source texts tried in a single interpret() call
SinglePrograms ==
    SessionPrograms
    \cup {WhileProgram(n) : n \in 0..3}
    \cup {DivProgram(a, b) : a \in DivOperands, b \in DivOperands}
    \cup {IfProgram(c) : c \in Conditions}
    \cup {IfOnlyProgram(c) : c \in Conditions}
    \cup {IfEqProgram(k) : k \in 1..2}
    \cup {DefB, PrintSum, BadParen, SetPrintA}
    \cup {ChainProgram(op1, b, op2) : op1 \in BinaryTokens, op2 \in BinaryTokens,
                                      b \in {<<Num(2)>>, <<tMinus, Num(2)>>}}
    \cup {<<tPrint, a, op, b, tSemi, tEOF>> :                       \* print a op b;
               a \in {Num(0), Num(1), Num(2), tNil, tTrue}, op \in BinaryTokens,
               b \in {Num(0), Num(1), Num(2), tNil, tTrue}}

\* the tokens of the enumerated sequences
Alphabet == {tLP, tRP, tLB, tSemi, Num(1), Id("a"), tEq, tPlus, tPrint, tVar, tErr,
             Tok("TOKEN_ERROR", "Unterminated string.", 2)}

RECURSIVE TokenSeqs(_)
TokenSeqs(n) ==
    IF n = 0 THEN {<<>>}
    ELSE LET shorter == TokenSeqs(n - 1)
         IN  shorter \cup {Append(q, t) : q \in {x \in shorter : Len(x) = n - 1}, t \in Alphabet}

ShortPrograms == {Append(q, tEOF) : q \in TokenSeqs(MaxLen)}

\* q repeated n times
Repeat(q, n) == [i \in 1..(n * Len(q)) |-> q[((i - 1) % Len(q)) + 1]]

\* the name of the k-th generated global
GName(k) == "g" \o ToString(k)

\* var g1; var g2; ... var gn;
VarDecls(n) ==
    [i \in 1..(3 * n) |-> IF i % 3 = 1 THEN tVar
                          ELSE IF i % 3 = 2 THEN Id(GName((i + 1) \div 3))
                          ELSE tSemi]

\* n times "print 1;", then the tail
PrintsThen(n, tail) == Repeat(<<tPrint, Num(1), tSemi>>, n) \o tail

DefH == <<tVar, Id("h"), tEq, Num(1), tSemi, tPrint, Id("h"), tSemi, tEOF>>  \* var h = 1; print h;
RedefG1 == <<tVar, Id(GName(1)), tEq, Num(2), tSemi,
             tPrint, Id(GName(1)), tSemi, tEOF>>                         \* var g1 = 2; print g1;

\* source texts at the limits of the constant pool and of the globals table
BigPrograms ==
    {PrintsThen(Byte - 1, <<tPrint, Num(2), tSemi, tEOF>>),              \* 256 constants
     PrintsThen(Byte, <<tVar, Id("a"), tEq, Num(2), tSemi, tEOF>>),      \* 258 constants
     PrintsThen(Byte, <<tPrint, Num(2), tSemi, tEOF>>),                  \* 257 constants
     PrintsThen(Byte, <<tPrint, Id("x"), tSemi, tEOF>>),                 \* the name x is constant 256
     Append(VarDecls(MAX_GLOBALS), tEOF),                                \* 256 globals
     Append(VarDecls(MAX_GLOBALS - 1), tEOF),                            \* 255 globals
     DefH, RedefG1}

\* the source texts of one run of the driver
Sources(md) ==
    IF md = "session" THEN SessionPrograms
    ELSE IF md = "single" THEN SinglePrograms
    ELSE IF md = "big" THEN BigPrograms
    ELSE ShortPrograms

\* initVM() calls per process
InitCap(md) == IF md = "session" THEN MaxInits ELSE 1

\* interpret() calls per process
CallCap(md) == IF md \in {"session", "big"} THEN MaxCalls ELSE 1

-----------------------------------------------------------------------------
(* The driver: initVM(), interpret(source), freeVM() called by a host      *)
(* program; compile() advances one top-level declaration per step, run()   *)
(* one instruction per step.                                               *)

StaticState ==
    /\ life = "uninit"
    /\ pc = "idle"
    /\ calls = 0
    /\ inits = 0
    /\ scanner = [source |-> <<>>, current |-> 0]
    /\ parser = [current |-> ZeroToken, previous |-> ZeroToken,
                 hadError |-> FALSE, panicMode |-> FALSE]
    /\ chunk = initChunk
    /\ heap = <<>>
    /\ vm = [ip |-> 0, stack |-> <<>>, under |-> <<>>, stackTop |-> 0,
             stackCapacity |-> 0, stackMem |-> "null"]
    /\ globals = <<>>
    /\ out = <<>>
    /\ diag = <<>>
    /\ result = "none"
    /\ ub = FALSE
    /\ runs = <<>>

Init == mode = "session" /\ StaticState
InitSingle == mode = "single" /\ StaticState
InitShort == mode = "short" /\ StaticState
InitBig == mode = "big" /\ StaticState

\* the compile state and the machine state assembled from the variables
CState == [scanner |-> scanner, parser |-> parser, chunk |-> chunk, heap |-> heap,
           diag |-> diag]

MState == [ip |-> vm.ip, stack |-> vm.stack, under |-> vm.under, stackTop |-> vm.stackTop,
           stackCapacity |-> vm.stackCapacity, stackMem |-> vm.stackMem,
           globals |-> globals, out |-> out, diag |-> diag, ub |-> ub, st |-> "run"]

VmOf(m) == [ip |-> m.ip, stack |-> m.stack, under |-> m.under, stackTop |-> m.stackTop,
            stackCapacity |-> m.stackCapacity, stackMem |-> m.stackMem]

\* initVM()
InitVM ==
    /\ pc = "idle"
    /\ life # "inited"
    /\ inits < InitCap(mode)
    /\ vm' = resetStack(vm)
    /\ globals' = <<>>
    /\ life' = "inited"
    /\ inits' = inits + 1
    /\ UNCHANGED <<mode, pc, calls, scanner, parser, chunk, heap, out, diag, result, ub, runs>>

\* free(vm.stack): the outcomes [crash, mem, ub]
freeStack(v) ==
    LET Freed(u) == [crash |-> FALSE, mem |-> IF v.stackMem = "null" THEN "null" ELSE "freed",
                     ub |-> u]
        Dead == [crash |-> TRUE, mem |-> v.stackMem, ub |-> TRUE]
    IN  IF v.stackMem = "freed" THEN {Dead, Freed(TRUE)}
        ELSE IF \E k \in 1..Len(v.under) : v.under[k] # JUNK THEN {Dead, Freed(FALSE)}
        ELSE {Freed(FALSE)}

\* freeVM()
FreeVM ==
    /\ pc = "idle"
    /\ life = "inited"
    /\ \E f \in freeStack(vm) :
        /\ vm' = [vm EXCEPT !.stackMem = f.mem]
        /\ ub' = (ub \/ f.ub)
        /\ pc' = IF f.crash THEN "crashed" ELSE "idle"
    /\ life' = "freed"
    /\ UNCHANGED <<mode, calls, inits, scanner, parser, chunk, heap, globals, out, diag,
                   result, runs>>

\* a compile() that starts with the hadError of the call before
compileBeginKeepingHadError(c, source) ==
    advance([c EXCEPT !.scanner = initScanner(source), !.parser.panicMode = FALSE])

\* compile(): initScanner, the flags reset, the first advance()
compileBegin(c, source) ==
    advance([c EXCEPT !.scanner = initScanner(source),
                      !.parser.hadError = FALSE,
                      !.parser.panicMode = FALSE])

\* interpret(source) up to the top-level loop of compile()
Interpret ==
    /\ pc = "idle"
    /\ life = "inited"
    /\ calls < CallCap(mode)
    /\ \E source \in Sources(mode) :
        \E c \in {compileBegin([CState EXCEPT !.chunk = initChunk, !.diag = <<>>], source)} :
            /\ scanner' = c.scanner
            /\ parser' = c.parser
            /\ chunk' = c.chunk
            /\ heap' = c.heap
            /\ diag' = c.diag
    /\ out' = <<>>
    /\ pc' = "compiling"
    /\ calls' = calls + 1
    /\ UNCHANGED <<mode, life, inits, vm, globals, result, ub, runs>>

\* while (!match(TOKEN_EOF)) declaration();  one iteration.  A compile that
\* consumes no token is followed until the chunk holds MaxCode bytes.
CompileDeclaration ==
    /\ pc = "compiling"
    /\ ~check(CState, "TOKEN_EOF")
    /\ \E c \in {declaration(CState)} :
           /\ Len(chunk.code) < MaxCode \/ CurPos(c) > CurPos(CState)
           /\ scanner' = c.scanner
           /\ parser' = c.parser
           /\ chunk' = c.chunk
           /\ heap' = c.heap
           /\ diag' = c.diag
    /\ UNCHANGED <<mode, life, pc, calls, inits, vm, globals, out, result, ub, runs>>

\* an end of compile() that emits nothing
compileEndWithoutReturn(c) == advance(c)

\* an end of compile() that returns nil: OP_NIL before OP_RETURN
compileEndReturningNil(c) == emitPrev(emitPrev(advance(c), OP_NIL), OP_RETURN)

\* the end of compile(): match(TOKEN_EOF), OP_RETURN, return !hadError
compileEnd(c) == emitPrev(advance(c), OP_RETURN)

\* a compile() that reports success whatever was diagnosed
compileResultIgnoringErrors(c) == TRUE

\* the value compile() returns: !parser.hadError
compileResult(c) == ~c.parser.hadError

Returned(res) == Append(runs, [source |-> scanner.source, out |-> out, result |-> res,
                               init |-> inits, call |-> calls])

\* compile() returns; interpret() frees the chunk and returns
\* INTERPRET_COMPILE_ERROR, or sets vm.chunk and vm.ip and enters run()
CompileReturn ==
    /\ pc = "compiling"
    /\ check(CState, "TOKEN_EOF")
    /\ \E c \in {compileEnd(CState)} :
           /\ scanner' = c.scanner
           /\ parser' = c.parser
           /\ heap' = c.heap
           /\ diag' = c.diag
           /\ IF ~compileResult(c)
              THEN /\ chunk' = initChunk
                   /\ result' = "INTERPRET_COMPILE_ERROR"
                   /\ runs' = Returned("INTERPRET_COMPILE_ERROR")
                   /\ pc' = "idle"
                   /\ vm' = vm
              ELSE /\ chunk' = c.chunk
                   /\ vm' = [vm EXCEPT !.ip = 0]
                   /\ pc' = "running"
                   /\ UNCHANGED <<result, runs>>
    /\ UNCHANGED <<mode, life, calls, inits, globals, out, ub>>

\* one instruction of run(); when run() returns, interpret() frees the chunk
\* and returns the result
RunStep ==
    /\ pc = "running"
    /\ \E m \in step(MState, chunk, heap) :
        /\ vm' = VmOf(m)
        /\ globals' = m.globals
        /\ out' = m.out
        /\ diag' = m.diag
        /\ ub' = m.ub
        /\ IF m.st = "run" THEN UNCHANGED <<pc, chunk, result, runs>>
           ELSE IF m.st = "crash"
           THEN pc' = "crashed" /\ UNCHANGED <<chunk, result, runs>>
           ELSE /\ pc' = "idle"
                /\ chunk' = initChunk
                /\ result' = m.st
                /\ runs' = Append(runs, [source |-> scanner.source, out |-> m.out,
                                         result |-> m.st, init |-> inits, call |-> calls])
    /\ UNCHANGED <<mode, life, calls, inits, scanner, parser, heap>>

Next == InitVM \/ FreeVM \/ Interpret \/ CompileDeclaration \/ CompileReturn \/ RunStep

Spec == Init /\ [][Next]_vars
SpecSingle == InitSingle /\ [][Next]_vars
SpecShort == InitShort /\ [][Next]_vars
SpecBig == InitBig /\ [][Next]_vars

-----------------------------------------------------------------------------
(* Reading a chunk the way run() decodes it                                 *)

\* bytes an instruction occupies: the opcode and what READ_BYTE / READ_SHORT
\* consume after it
InstrSize(op) ==
    IF op \in {OP_CONSTANT, OP_GET_GLOBAL, OP_DEFINE_GLOBAL, OP_SET_GLOBAL} THEN 2
    ELSE IF op \in {OP_JUMP, OP_JUMP_IF_FALSE, OP_LOOP} THEN 3
    ELSE 1

\* offset of the instruction after the one at offset p (p itself past the end)
NextInstr(code, p) == IF p >= Len(code) THEN p ELSE p + InstrSize(code[p + 1])

\* offset reached from p after 2^k instructions
RECURSIVE Skip(_, _, _)
Skip(code, p, k) ==
    IF k = 0 THEN NextInstr(code, p)
    ELSE CHOOSE r \in {Skip(code, q, k - 1) : q \in {Skip(code, p, k - 1)}} : TRUE

\* offsets of the 2^k instructions met decoding code linearly from offset p
RECURSIVE InstrFrom(_, _, _)
InstrFrom(code, p, k) ==
    IF k = 0 THEN {p}
    ELSE UNION {InstrFrom(code, q, k - 1) : q \in {p, Skip(code, p, k - 1)}}

\* the least k with 2^k >= n
RECURSIVE Log2(_)
Log2(n) == IF n <= 1 THEN 0 ELSE 1 + Log2((n + 1) \div 2)

\* offsets of the instructions of code, decoded linearly from offset 0
InstrOffsets(code) == {p \in InstrFrom(code, 0, Log2(Len(code))) : p < Len(code)}

\* run() is about to dispatch instruction op
AtOp(op) ==
    /\ pc = "running"
    /\ vm.ip >= 0
    /\ vm.ip < Len(chunk.code)
    /\ chunk.code[vm.ip + 1] = op

\* index in the source of the token the compiler looks at
CurrentPos == CurPos(CState)

\* interpret() has returned or the process has died
Ended == pc \in {"idle", "crashed"} /\ calls >= 1

\* the printed values 0, 1, ..., n-1
Counting(n) == [i \in 1..n |-> NUMBER_VAL(i - 1, 1)]

-----------------------------------------------------------------------------
(* C1: from a fresh VM, var i = 0; while (i < N) { print i; i = i + 1; }    *)
(* prints 0, 1, ..., N-1 in order and returns INTERPRET_OK, for N in 0..3.  *)
(* Checked under SpecSingle (one initVM, one interpret).                    *)
C1_WhilePrintsCounting ==
    \A n \in 0..3 :
        (scanner.source = WhileProgram(n) /\ Ended /\ life = "inited")
            => /\ pc = "idle"
               /\ result = "INTERPRET_OK"
               /\ out = Counting(n)

(* C2: every call of declaration() made by the top-level loop of compile()  *)
(* consumes at least one token, so the loop reaches EOF after finitely many *)
(* iterations whatever the token sequence.                                  *)
C2_DeclarationConsumes ==
    [][(pc = "compiling" /\ pc' = "compiling") => CurrentPos' > CurrentPos]_vars

(* C3: in a run on a fresh VM that compiled successfully and raised no      *)
(* runtime error, the operand stack is empty when OP_RETURN is dispatched.  *)
C3_StackEmptyAtReturn ==
    AtOp(OP_RETURN) => vm.stackTop = 0

(* C4: in a chunk of a successful compile every OP_JUMP / OP_JUMP_IF_FALSE  *)
(* at offset p with operand d has p + 3 + d <= len(code), and every OP_LOOP *)
(* at p with operand d has p + 3 - d >= 0, d read as READ_SHORT reads it.   *)
C4_JumpOperandsInRange ==
    pc = "running" =>
        \A p \in InstrOffsets(chunk.code) :
            /\ chunk.code[p + 1] \in {OP_JUMP, OP_JUMP_IF_FALSE}
                   => p + 3 + READ_SHORT(chunk, p + 1) <= Len(chunk.code)
            /\ chunk.code[p + 1] = OP_LOOP
                   => p + 3 - READ_SHORT(chunk, p + 1) >= 0

\* the first interpret() returned under the first initVM(), no other has
FirstRunDone == Len(runs) = 1 /\ runs[1].init = 1

\* two interpret() calls of one source text, one under each initVM()
SameSourceTwice ==
    /\ Len(runs) = 2
    /\ runs[1].init = 1
    /\ runs[2].init = 2
    /\ runs[1].source = runs[2].source

(* C5: initVM(); interpret(src); freeVM(); initVM(); interpret(src);         *)
(* freeVM() gives the same output and the same result from both interpret   *)
(* calls: the second initVM() leaves no globals and an empty, usable stack, *)
(* and the second run does not die.                                         *)
C5_SecondRunLikeFirst ==
    /\ (inits = 2 /\ life = "inited" /\ pc = "idle" /\ calls = 1 /\ FirstRunDone)
           => (globals = <<>> /\ vm.stackTop = 0 /\ vm.stackMem # "freed")
    /\ SameSourceTwice => (runs[1].out = runs[2].out /\ runs[1].result = runs[2].result)
    /\ (pc = "crashed" /\ inits = 2 /\ calls = 2 /\ FirstRunDone)
           => scanner.source # runs[1].source

\* the entry runtimeError(message) appends to stderr
RuntimeDiag(message) == [msg |-> message, arg |-> ""]

(* C6: OP_DIVIDE on operands a (below) and b (top): "Operands must be       *)
(* numbers." whenever a or b is not a Number; "Division by zero." only when *)
(* both are Numbers and b is 0; otherwise b and a are popped and a / b is   *)
(* pushed.                                                                  *)
C6_DivideChecksOperands ==
    [][(AtOp(OP_DIVIDE) /\ vm.stackTop >= 2 /\ vm.stackMem = "live") =>
         LET b == vm.stack[vm.stackTop]
             a == vm.stack[vm.stackTop - 1]
         IN  IF ~IS_NUMBER(a) \/ ~IS_NUMBER(b)
             THEN /\ result' = "INTERPRET_RUNTIME_ERROR"
                  /\ diag' = Append(diag, RuntimeDiag("Operands must be numbers."))
             ELSE IF b.num = 0
             THEN /\ result' = "INTERPRET_RUNTIME_ERROR"
                  /\ diag' = Append(diag, RuntimeDiag("Division by zero."))
             ELSE /\ pc' = "running"
                  /\ vm'.stackTop = vm.stackTop - 1
                  /\ vm'.stack[vm.stackTop - 1] = NumDivide(a, b)
                  /\ diag' = diag]_vars

\* the values of the number literals of a source text, in order
NumbersOf(source) ==
    LET nums == SelectSeq(source, LAMBDA t : t.type = "TOKEN_NUMBER")
    IN  [i \in 1..Len(nums) |-> strtod(nums[i].text)]

\* the names of the identifiers of a source text
NamesOf(source) == {source[i].text : i \in {j \in 1..Len(source) : source[j].type = "TOKEN_IDENTIFIER"}}

\* the offsets of the instructions of ch whose opcode is in ops, ascending
OffsetsOf(ch, ops) ==
    LET starts == InstrOffsets(ch.code)
    IN  SelectSeq([i \in 1..Len(ch.code) |-> i - 1],
                  LAMBDA p : p \in starts /\ ch.code[p + 1] \in ops)

\* the constant an instruction at offset p designates by its operand byte
Designated(ch, p) == ch.constants[ch.code[p + 2] + 1]

GlobalOps == {OP_GET_GLOBAL, OP_DEFINE_GLOBAL, OP_SET_GLOBAL}

\* the operands of the instructions at the offsets ps
OperandsAt(ch, ps) == {ch.code[ps[k] + 2] : k \in 1..Len(ps)}

(* C7: in the chunk of a successful compile, also of a program with more    *)
(* than 256 constants, the OP_CONSTANT instructions designate the values of *)
(* the number literals of the source in order, and every global instruction *)
(* designates an Obj string constant holding an identifier of the source;   *)
(* with at most 256 constants each constant is the operand of exactly one   *)
(* instruction.                                                             *)
C7_OperandsDesignateConstants ==
    (pc = "running" /\ vm.ip = 0) =>
        LET loads == OffsetsOf(chunk, {OP_CONSTANT})
            names == OffsetsOf(chunk, GlobalOps)
        IN  /\ [k \in 1..Len(loads) |-> Designated(chunk, loads[k])] = NumbersOf(scanner.source)
            /\ \A k \in 1..Len(names) :
                   /\ IS_OBJ(Designated(chunk, names[k]))
                   /\ heap[AS_OBJ(Designated(chunk, names[k]))] \in NamesOf(scanner.source)
            /\ Len(chunk.constants) <= Byte =>
                   /\ Len(loads) + Len(names) = Len(chunk.constants)
                   /\ OperandsAt(chunk, loads) \cup OperandsAt(chunk, names)
                          = 0..(Len(chunk.constants) - 1)

(* C8: OP_DEFINE_GLOBAL for name n with v on top of the stack leaves the    *)
(* table mapping n to v (inserted or overwritten) and pops v, whatever the  *)
(* number of names already defined; the other names keep their values.      *)
C8_DefineGlobalBinds ==
    [][(/\ AtOp(OP_DEFINE_GLOBAL)
        /\ vm.stackTop >= 1
        /\ vm.stackMem = "live"
        /\ IS_OBJ(Designated(chunk, vm.ip))) =>
         LET n == getConstantName(chunk, chunk.code[vm.ip + 2])
             v == vm.stack[vm.stackTop]
         IN  /\ getGlobal(heap, globals', n) = <<TRUE, v>>
             /\ vm'.stackTop = vm.stackTop - 1
             /\ \A k \in 1..Len(globals) :
                    stringsEqual(heap, globals[k].name, n)
                    \/ getGlobal(heap, globals', globals[k].name) = <<TRUE, globals[k].value>>]_vars

\* entry k of the globals table is named like the name constant of the
\* instruction at vm.ip
NamedHere(k) ==
    /\ IS_OBJ(Designated(chunk, vm.ip))
    /\ globals[k].name # 0
    /\ heap[globals[k].name] = heap[AS_OBJ(Designated(chunk, vm.ip))]

\* the operand stack can take a push without touching memory it does not own
StackUsable ==
    /\ vm.stackTop >= 0
    /\ vm.stackMem # "freed"
    /\ \A k \in 1..Len(vm.under) : vm.under[k] = JUNK

(* C9: the globals table changes only while run() executes or in initVM(),  *)
(* which empties it; OP_GET_GLOBAL pushes, and OP_SET_GLOBAL overwrites,    *)
(* the entry whose name has the content of the instruction's name constant, *)
(* whichever interpret() call defined it.                                   *)
C9_GlobalsPersist ==
    [][/\ inits' # inits => globals' = <<>>
       /\ (pc # "running" /\ inits' = inits) => globals' = globals
       /\ \A k \in 1..Len(globals) :
            /\ (AtOp(OP_GET_GLOBAL) /\ NamedHere(k) /\ StackUsable)
                   => /\ pc' = "running"
                      /\ vm'.stackTop = vm.stackTop + 1
                      /\ vm'.stack[vm.stackTop + 1] = globals[k].value
                      /\ globals' = globals
            /\ (AtOp(OP_SET_GLOBAL) /\ NamedHere(k) /\ StackUsable /\ vm.stackTop >= 1)
                   => /\ pc' = "running"
                      /\ vm'.stackTop = vm.stackTop
                      /\ globals' = [globals EXCEPT ![k].value = vm.stack[vm.stackTop]]]_vars

\* an interpret() call read a global that an earlier call of the same
\* initVM() epoch defined
C9_ReadAcrossCalls ==
    /\ Len(runs) = 2
    /\ runs[1].source = DefA
    /\ runs[2].source = PrintA
    /\ runs[1].init = runs[2].init
    /\ runs[2].result = "INTERPRET_OK"
    /\ runs[2].out = <<NUMBER_VAL(5, 1)>>

\* the operand stack of the VM: everything but the instruction pointer
StackOf(v) == [v EXCEPT !.ip = 0]

(* C10: interpret() changes neither the globals nor the operand stack and   *)
(* prints nothing while it compiles, and when compile() has reported an     *)
(* error it returns INTERPRET_COMPILE_ERROR without entering run().         *)
C10_CompileErrorNoExecution ==
    [][/\ (pc = "idle" /\ pc' = "compiling")
            => (globals' = globals /\ vm' = vm /\ out' = <<>>)
       /\ pc = "compiling"
            => (globals' = globals /\ StackOf(vm') = StackOf(vm) /\ out' = out)
       /\ (pc = "compiling" /\ pc' # "compiling" /\ parser'.hadError)
            => /\ pc' = "idle"
               /\ result' = "INTERPRET_COMPILE_ERROR"
               /\ vm' = vm
               /\ runs'[Len(runs')].out = <<>>]_vars

\* a call that failed to compile returned with the globals of an earlier
\* call still in place
C10_FailedAfterDefinition ==
    /\ Len(runs) = 2
    /\ runs[1].source = DefA
    /\ runs[2].source = BadPrint
    /\ runs[1].init = runs[2].init
    /\ pc = "idle"
    /\ result = "INTERPRET_COMPILE_ERROR"
    /\ Len(globals) = 1
    /\ globals[1].value = NUMBER_VAL(5, 1)

\* the token c, as a condition, is truthy: everything but nil and false
TruthyToken(c) == c \notin {tNil, tFalse}

(* C11: if (c) A else B runs A and not B exactly when c is truthy (only nil *)
(* and false are falsy), B and not A otherwise, and returns INTERPRET_OK:   *)
(* var x = 1; if (x == k) print 10; else print 20; prints 10 for k = 1 and  *)
(* 20 for k = 2; if (c) print 1; else print 2; prints 1 or 2; if (c) print  *)
(* 1; prints 1 or nothing.                                                  *)
C11_IfElseSelectsBranch ==
    (Ended /\ life = "inited") =>
        /\ \A k \in 1..2 :
               scanner.source = IfEqProgram(k)
                   => /\ pc = "idle"
                      /\ result = "INTERPRET_OK"
                      /\ out = <<NUMBER_VAL(10 * k, 1)>>
        /\ \A c \in Conditions :
               /\ scanner.source = IfProgram(c)
                      => /\ pc = "idle"
                         /\ result = "INTERPRET_OK"
                         /\ out = <<NUMBER_VAL(IF TruthyToken(c) THEN 1 ELSE 2, 1)>>
               /\ scanner.source = IfOnlyProgram(c)
                      => /\ pc = "idle"
                         /\ result = "INTERPRET_OK"
                         /\ out = IF TruthyToken(c) THEN <<NUMBER_VAL(1, 1)>> ELSE <<>>

UndefinedHere == \A k \in 1..Len(globals) : ~NamedHere(k)
TopIs(d) == vm.stack[vm.stackTop - d]
Failing ==
    \/ AtOp(OP_GET_GLOBAL) /\ UndefinedHere
    \/ AtOp(OP_SET_GLOBAL) /\ UndefinedHere /\ vm.stackMem = "live" /\ vm.stackTop >= 1
    \/ /\ \E op \in {OP_GREATER, OP_LESS, OP_ADD, OP_SUBTRACT, OP_MULTIPLY, OP_DIVIDE} : AtOp(op)
       /\ vm.stackMem = "live" /\ vm.stackTop >= 2
       /\ ~IS_NUMBER(TopIs(0)) \/ ~IS_NUMBER(TopIs(1))
    \/ /\ AtOp(OP_DIVIDE) /\ vm.stackMem = "live" /\ vm.stackTop >= 2
       /\ IS_NUMBER(TopIs(0)) /\ IS_NUMBER(TopIs(1)) /\ TopIs(0).num = 0
    \/ AtOp(OP_NEGATE) /\ vm.stackMem = "live" /\ vm.stackTop >= 1 /\ ~IS_NUMBER(TopIs(0))

(* C13: an instruction that fails (undefined variable read or assigned, a   *)
(* non-Number operand, a division by zero) ends run() at once with          *)
(* INTERPRET_RUNTIME_ERROR and one diagnostic, and leaves the globals table *)
(* as it was: nothing created, nothing defined earlier changed.             *)
C13_RuntimeErrorReturns ==
    [][/\ Failing => /\ pc' = "idle"
                     /\ result' = "INTERPRET_RUNTIME_ERROR"
                     /\ globals' = globals
                     /\ out' = out
                     /\ Len(diag') = Len(diag) + 1
       /\ (pc = "running" /\ pc' = "idle" /\ result' = "INTERPRET_RUNTIME_ERROR")
              => globals' = globals /\ out' = out]_vars

\* the source text holds a character the scanner answers with an ERROR token
HasErrorToken(source) == \E i \in 1..Len(source) : source[i].type = "TOKEN_ERROR"

(* C14: compile() returns false exactly when a compile error was raised in  *)
(* that call: hadError is false again when a compile starts without an      *)
(* error, is never cleared while compile() runs, and decides the return; a  *)
(* source with ERROR tokens always fails, the second of two errors included. *)
C14_CompileFailsIffError ==
    [][/\ calls' # calls => (parser'.hadError <=> Len(diag') >= 1)
       /\ (pc = "compiling" /\ parser.hadError) => parser'.hadError
       /\ (pc = "compiling" /\ pc' # "compiling")
              => /\ (pc' = "idle" /\ result' = "INTERPRET_COMPILE_ERROR") <=> Len(diag') >= 1
                 /\ pc' = "running" <=> ~parser'.hadError
                 /\ HasErrorToken(scanner.source) => pc' = "idle"]_vars

\* a compile with two lexical errors failed and the next compile succeeded
C14_FailedThenCompiled ==
    /\ Len(runs) = 2
    /\ runs[1].source = <<tErr, tErr, tEOF>>
    /\ runs[1].result = "INTERPRET_COMPILE_ERROR"
    /\ runs[2].result = "INTERPRET_OK"
    /\ runs[2].init = runs[1].init

\* the opcode(s) the language gives a binary operator
OpcodesOf(lexeme) ==
    CASE lexeme = "*" -> <<OP_MULTIPLY>>
      [] lexeme = "/" -> <<OP_DIVIDE>>
      [] lexeme = "+" -> <<OP_ADD>>
      [] lexeme = "-" -> <<OP_SUBTRACT>>
      [] lexeme = "==" -> <<OP_EQUAL>>
      [] lexeme = "!=" -> <<OP_EQUAL, OP_NOT>>
      [] lexeme = "<" -> <<OP_LESS>>
      [] lexeme = "<=" -> <<OP_GREATER, OP_NOT>>
      [] lexeme = ">" -> <<OP_GREATER>>
      [] lexeme = ">=" -> <<OP_LESS, OP_NOT>>
\* x op y on integers, for the operators closed on them
IntOp(lexeme, x, y) == IF lexeme = "+" THEN x + y ELSE IF lexeme = "-" THEN x - y ELSE x * y

WellFormed(ch) ==
    /\ Len(ch.code) = Len(ch.lines)
    /\ \A i \in 1..Len(ch.code) : ch.code[i] \in 0..(Byte - 1)
    /\ \A p \in InstrOffsets(ch.code) :
           /\ ch.code[p + 1] \in OP_CONSTANT..OP_RETURN
           /\ p + InstrSize(ch.code[p + 1]) <= Len(ch.code)
\* the last instruction of ch is OP_RETURN
EndsWithReturn(ch) ==
    /\ Len(ch.code) >= 1
    /\ ch.code[Len(ch.code)] = OP_RETURN
    /\ (Len(ch.code) - 1) \in InstrOffsets(ch.code)

(* C16: the chunk compile() builds is at every top-level statement, and the *)
(* chunk it returns (with or without errors) is, a sequence of complete     *)
(* instructions with as many lines as bytes; the returned chunk ends with   *)
(* the instruction OP_RETURN.                                               *)
C16_ChunkWellFormed ==
    /\ pc \in {"compiling", "running"} => WellFormed(chunk)
    /\ pc = "running" => EndsWithReturn(chunk)
    /\ (pc = "compiling" /\ check(CState, "TOKEN_EOF"))
           => \A c \in {compileEnd(CState)} : WellFormed(c.chunk) /\ EndsWithReturn(c.chunk)

\* run() starts on a chunk that holds a loop, a forward jump and a definition
C16_LoopChunkReturned ==
    /\ pc = "running"
    /\ vm.ip = 0
    /\ \A op \in {OP_LOOP, OP_JUMP_IF_FALSE, OP_DEFINE_GLOBAL, OP_CONSTANT} :
           \E p \in InstrOffsets(chunk.code) : chunk.code[p + 1] = op
    /\ EndsWithReturn(chunk)

(* C17: interpret() of a source without tokens compiles the chunk           *)
(* <<OP_RETURN>> with no constants and returns INTERPRET_OK; from the call  *)
(* to the return nothing is printed or diagnosed and the globals and the    *)
(* stack stay as they were.                                                 *)
C17_EmptySourceDoesNothing ==
    [][(scanner'.source = Empty /\ (pc \in {"compiling", "running"} \/ calls' # calls))
          => /\ globals' = globals
             /\ vm'.stack = vm.stack /\ vm'.stackTop = vm.stackTop
             /\ vm'.under = vm.under /\ vm'.stackMem = vm.stackMem
             /\ out' = <<>> /\ diag' = <<>>
             /\ pc' \in {"compiling", "running", "idle"}
             /\ pc' = "running" => chunk'.code = <<OP_RETURN>> /\ chunk'.constants = <<>>
             /\ pc' = "idle" => pc = "running" /\ result' = "INTERPRET_OK"]_vars

\* the empty source was interpreted after a call that left a global and a
\* call that left values on the stack
C17_EmptyAfterLeftovers ==
    /\ Len(runs) = 2
    /\ runs[1].result = "INTERPRET_RUNTIME_ERROR"
    /\ runs[2].source = Empty
    /\ runs[2].result = "INTERPRET_OK"
    /\ runs[2].init = runs[1].init
    /\ vm.stackTop >= 1

\* where the jump instruction at offset p lands: its operand is at o = p + 1,
\* and run() adds the operand to the ip left behind it, o + 2
JumpTarget(ch, p) == p + 3 + READ_SHORT(ch, p + 1)
\* the offsets of the instructions of ch with an opcode in ops
StartsOf(ch, ops) == {p \in InstrOffsets(ch.code) : ch.code[p + 1] \in ops}
\* offset p starts an instruction with opcode op
InstrAt(ch, p, op) == p \in InstrOffsets(ch.code) /\ ch.code[p + 1] = op

(* C18: in a chunk compile() returned, every OP_JUMP_IF_FALSE lands on the  *)
(* OP_POP right behind the operand of the statement's OP_JUMP (if) or       *)
(* OP_LOOP (while), every OP_JUMP lands behind the else branch (on the      *)
(* OP_RETURN, in a source that ends with the if statement), and no operand  *)
(* of a forward jump is the placeholder 0xFF 0xFF.                          *)
C18_ForwardJumpsPatched ==
    pc = "running" =>
        /\ \A p \in StartsOf(chunk, {OP_JUMP_IF_FALSE}) :
              /\ READ_SHORT(chunk, p + 1) # Short - 1
              /\ InstrAt(chunk, JumpTarget(chunk, p), OP_POP)
              /\ \/ InstrAt(chunk, JumpTarget(chunk, p) - 3, OP_JUMP)
                 \/ InstrAt(chunk, JumpTarget(chunk, p) - 3, OP_LOOP)
        /\ \A p \in StartsOf(chunk, {OP_JUMP}) :
              /\ READ_SHORT(chunk, p + 1) # Short - 1
              /\ JumpTarget(chunk, p) = Len(chunk.code) - 1
              /\ \E q \in StartsOf(chunk, {OP_JUMP_IF_FALSE}) :
                     q < p /\ JumpTarget(chunk, q) = p + 3
        /\ \A c \in Conditions :
              scanner.source \in {IfProgram(c), IfOnlyProgram(c)}
                  => Cardinality(StartsOf(chunk, {OP_JUMP_IF_FALSE, OP_JUMP})) = 2
        /\ \A n \in 0..3 :
              scanner.source = WhileProgram(n)
                  => \E p \in StartsOf(chunk, {OP_JUMP_IF_FALSE}) :
                         InstrAt(chunk, JumpTarget(chunk, p) - 3, OP_LOOP)

\* if (true) print 1; else print 2;  compiled: the jumps at offsets 1 and 8
C18_IfElseCompiled ==
    /\ pc = "running"
    /\ scanner.source = IfProgram(tTrue)
    /\ chunk.code = <<OP_TRUE, OP_JUMP_IF_FALSE, 0, 7, OP_POP, OP_CONSTANT, 0, OP_PRINT,
                      OP_JUMP, 0, 4, OP_POP, OP_CONSTANT, 1, OP_PRINT, OP_RETURN>>
    /\ JumpTarget(chunk, 1) = 11
    /\ JumpTarget(chunk, 8) = 15

\* the positions of the ERROR tokens advance() has come across so far
ScannedErrors ==
    {i \in 1..CurrentPos : scanner.source[i].type = "TOKEN_ERROR"}
\* the diagnostics printed for ERROR tokens
LexicalDiags == {i \in 1..Len(diag) : diag[i].at = "error"}

(* C19 as stated: parser.current never holds an ERROR token and every ERROR *)
(* token advance() skipped has its own diagnostic.                          *)
C19_EachErrorTokenDiagnosed ==
    pc = "compiling" =>
        /\ parser.current.type # "TOKEN_ERROR"
        /\ Cardinality(LexicalDiags) = Cardinality(ScannedErrors)

(* C19 amended: parser.current never holds an ERROR token; every ERROR      *)
(* token skipped makes the compile fail, but only the first error of a      *)
(* compile() call is printed: a diagnostic for an ERROR token exists only   *)
(* when the first ERROR token was the first error, and then carries that    *)
(* token's line and message.                                                *)
C19_ErrorTokensSkipped ==
    pc = "compiling" =>
        /\ parser.current.type # "TOKEN_ERROR"
        /\ ScannedErrors # {} => parser.hadError /\ Len(diag) = 1
        /\ \A d \in LexicalDiags :
               \E i \in ScannedErrors :
                   /\ \A j \in ScannedErrors : i <= j
                   /\ diag[d].line = scanner.source[i].line
                   /\ diag[d].msg = scanner.source[i].text
        /\ (ScannedErrors # {} /\ \A j \in 1..CurrentPos : j \in ScannedErrors)
               => LexicalDiags = {1}

\* two different ERROR tokens were skipped and one diagnostic was printed
C19_TwoErrorsOneDiagnostic ==
    /\ pc = "compiling"
    /\ Cardinality(ScannedErrors) = 2
    /\ \E i \in ScannedErrors, j \in ScannedErrors : scanner.source[i] # scanner.source[j]
    /\ LexicalDiags = {1}
    /\ check(CState, "TOKEN_EOF")

(* C20: while compile() runs, and when it has returned, panicMode equals    *)
(* hadError: both are set by the first compile error and neither is cleared *)
(* before the next compile(); a compile() call prints at most one           *)
(* diagnostic, the first error's, whatever is detected after it.            *)
C20_PanicModeIsHadError ==
    /\ calls >= 1 => parser.panicMode = parser.hadError
    /\ pc = "compiling" => /\ Len(diag) <= 1
                           /\ parser.hadError <=> Len(diag) = 1
    /\ (pc = "idle" /\ result = "INTERPRET_COMPILE_ERROR" /\ calls >= 1 /\ parser.hadError)
           => Len(diag) = 1

\* after a diagnosed parse error, an ERROR token was skipped without a second one
C20_LaterErrorSilent ==
    /\ pc = "compiling"
    /\ parser.panicMode
    /\ Len(diag) = 1
    /\ diag[1].at = "lexeme"
    /\ ScannedErrors # {}

\* the Number a NUMBER token of the sources stands for
NumberOf(tok) == tok.text[1][1]
\* what a op b is for Numbers x, y and a desugared comparison operator
Reference(lexeme, x, y) ==
    IF lexeme = "!=" THEN x # y ELSE IF lexeme = "<=" THEN x <= y ELSE x >= y

(* C21: print a op b; for op one of != <= >= and Numbers a, b prints the    *)
(* Bool a op b and interpret returns INTERPRET_OK; a != b prints true when  *)
(* a and b are values of different variants.                                *)
C21_DesugaredComparisons ==
    \A a \in {Num(0), Num(1), Num(2), tNil, tTrue}, b \in {Num(0), Num(1), Num(2), tNil, tTrue} :
        \A op \in {t \in BinaryTokens : t.text \in {"!=", "<=", ">="}} :
            (Ended /\ scanner.source = <<tPrint, a, op, b, tSemi, tEOF>>)
                => /\ (a.type = "TOKEN_NUMBER" /\ b.type = "TOKEN_NUMBER")
                          => /\ pc = "idle" /\ result = "INTERPRET_OK"
                             /\ out = <<BOOL_VAL(Reference(op.text, NumberOf(a), NumberOf(b)))>>
                   /\ (a.type # b.type /\ op.text = "!=")
                          => /\ pc = "idle" /\ result = "INTERPRET_OK"
                             /\ out = <<BOOL_VAL(TRUE)>>

\* the stack slots the instruction with opcode op reads: pop() and peek(0)
\* need one, a second pop() or peek(1) two
Reads(op) ==
    IF op \in {OP_EQUAL, OP_GREATER, OP_LESS, OP_ADD, OP_SUBTRACT, OP_MULTIPLY, OP_DIVIDE}
    THEN 2
    ELSE IF op \in {OP_POP, OP_DEFINE_GLOBAL, OP_SET_GLOBAL, OP_NOT, OP_NEGATE, OP_PRINT,
                    OP_JUMP_IF_FALSE}
    THEN 1
    ELSE 0

(* C22: while a successfully compiled program runs on a fresh VM,           *)
(* 0 <= stackTop <= stackCapacity, every instruction finds on the stack the *)
(* slots its pops and peeks read, and no access outside the stack happens.  *)
C22_NoStackUnderflow ==
    (calls >= 1 /\ pc \in {"running", "crashed"}) =>
        /\ pc = "running"
        /\ ~ub
        /\ 0 <= vm.stackTop /\ vm.stackTop <= vm.stackCapacity
        /\ \A op \in OP_CONSTANT..OP_RETURN : AtOp(op) => vm.stackTop >= Reads(op)

(* C23: once freeVM() has released the stack storage the VM keeps no        *)
(* pointer to it together with a non-zero stackCapacity, no run() works on  *)
(* released storage, and no freeVM() or push() dies on it.                  *)
C23_NoDanglingStack ==
    /\ vm.stackMem = "freed" => vm.stackCapacity = 0
    /\ pc = "running" => vm.stackMem # "freed"
    /\ (pc = "crashed" /\ inits >= 2) => vm.stackMem # "freed"

(* C24: run() starts every chunk with stackTop = 0, whatever the earlier    *)
(* interpret() calls on the same VM left on the stack.                      *)
C24_RunStartsOnEmptyStack ==
    [][(pc = "compiling" /\ pc' = "running") => vm'.stackTop = 0]_vars

\* the source text holds no while statement
NoWhile == \A i \in 1..Len(scanner.source) : scanner.source[i].type # "TOKEN_WHILE"

(* C25: in a run of a compiled program without a while statement every      *)
(* instruction is fetched inside the code and either leaves vm.ip strictly  *)
(* greater and inside the code or ends run() with INTERPRET_OK or           *)
(* INTERPRET_RUNTIME_ERROR; so run() ends after at most len(code)           *)
(* instructions.                                                            *)
C25_RunTerminates ==
    [][(pc = "running" /\ NoWhile)
          => /\ vm.ip \in 0..(Len(chunk.code) - 1)
             /\ \/ pc' = "running" /\ vm'.ip > vm.ip /\ vm'.ip < Len(chunk.code)
                \/ pc' = "idle" /\ result' \in {"INTERPRET_OK", "INTERPRET_RUNTIME_ERROR"}]_vars

====
